---- MODULE Spec2Model ----
(***************************************************************************)
(* Black-Scholes-Merton calculator: the pricing model (bsm_model.py), the  *)
(* controller's two button handlers (app.py) and the view's input          *)
(* validation (gui_view.py).                                               *)
(*                                                                         *)
(* Numbers.  Python floats are modelled as fixed-point integers counting   *)
(* units of 1e-9: One (10^9) is 1.0 and Eps (1) is the 1e-9 threshold.     *)
(* A quotient by a constant (T_days / 365.0, pct / 100.0) is kept as the   *)
(* exact fraction [num, den] and compared by cross-multiplication.  The    *)
(* closed-form values of the general branch (log, exp, normal cdf/pdf)     *)
(* cannot be computed over integers: each is the symbolic term "formula    *)
(* <name> applied to the object's six fields".                             *)
(***************************************************************************)
EXTENDS Integers, Sequences, FiniteSets, TLC

One == 1000000000
Eps == 1
DaysPerYear == 365
PctScale == 100
NSeries == 5

(* Largest step count the Steps entry holds in the checked configurations. *)
MaxSteps == 3
(* Largest step count of the configurations whose cells run in any order.  *)
MaxStepsAny == 2

VARIABLES entries, settings, handler, msg, raised, evals, branch, shown,
          plot, base_inputs, pc, cells, reordered

vars == <<entries, settings, handler, msg, raised, evals, branch, shown,
          plot, base_inputs, pc, cells, reordered>>

-----------------------------------------------------------------------------
(* Values                                                                  *)

InputKeys == {"S", "K", "T", "r", "sigma", "q"}

ResultKeys == {"call_price", "put_price", "call_delta", "put_delta", "gamma",
               "vega", "call_theta", "put_theta", "call_rho", "put_rho"}

(* x / d for a constant d, kept exact. *)
Quot(x, d) == [num |-> x, den |-> d]

(* q <= e for a fraction q and a fixed-point number e. *)
QuotLe(q, e) == q.num <= e * q.den

NoSelf == [S |-> 0, K |-> 0, T |-> Quot(0, 1), r |-> Quot(0, 1),
           sigma |-> Quot(0, 1), q |-> Quot(0, 1)]

(* A float literal or an exactly computed float. *)
Lit(n) == [kind |-> "lit", name |-> "", n |-> n, self |-> NoSelf]

(* The value the general-branch formula `name` yields on object `self`. *)
Term(name, self) == [kind |-> "bsm", name |-> name, n |-> 0, self |-> self]

-----------------------------------------------------------------------------
(* bsm_model.py                                                            *)

BlackScholes(S, K, T_days, r_pct, sigma_pct, q_pct) ==
    [S |-> S, K |-> K,
     T |-> Quot(T_days, DaysPerYear),
     r |-> Quot(r_pct, PctScale),
     sigma |-> Quot(sigma_pct, PctScale),
     q |-> Quot(q_pct, PctScale)]

Defaults == [k \in ResultKeys |-> Lit(0)]

Max0(x) == IF 0 >= x THEN 0 ELSE x

(* calculate_all's first test: self.T <= 1e-9 *)
TExpiredLoose(self) == QuotLe(self.T, 0)
TExpired(self) == QuotLe(self.T, Eps)

(* _d1_d2's guard: self.T <= 1e-9 or self.sigma <= 1e-9 *)
D1D2NoneTOnly(self) == QuotLe(self.T, Eps)
D1D2None(self) == QuotLe(self.T, Eps) \/ QuotLe(self.sigma, Eps)

(* _d1_d2 past its guard evaluates self.S / self.K on two Python floats,    *)
(* which raises ZeroDivisionError when K is 0.0.  The numpy operations     *)
(* around it (log of a non-positive ratio, division by a zero float64)     *)
(* warn and yield nan or inf; they do not raise.  self.sigma ** 2 raises   *)
(* OverflowError only for |sigma| beyond about 1e154, outside the          *)
(* fixed-point range used here.                                            *)
D1D2Raises(self) == ~D1D2None(self) /\ self.K = 0

Intrinsic(self) ==
    [Defaults EXCEPT !["call_price"] = Lit(Max0(self.S - self.K)),
                     !["put_price"] = Lit(Max0(self.K - self.S))]

ExpiryResults(self) ==
    LET r0 == Intrinsic(self)
    IN  IF self.S > self.K
        THEN [r0 EXCEPT !["call_delta"] = Lit(One), !["put_delta"] = Lit(0)]
        ELSE IF self.S < self.K
        THEN [r0 EXCEPT !["call_delta"] = Lit(0), !["put_delta"] = Lit(-One)]
        ELSE r0

(* The general branch (lines 71-112).  Its ten values are float results of  *)
(* np.log, np.exp, np.sqrt and scipy's norm.cdf / norm.pdf; they are kept   *)
(* as terms, so statements about their magnitudes or rounding (put-call    *)
(* parity within 1e-6) are not expressible over this module's values.      *)
GeneralResults(self) == [k \in ResultKeys |-> Term(k, self)]

(* calculate_all: the branch taken, whether it raised, and the dict.       *)
CalculateAll(self) ==
    IF TExpired(self)
    THEN [raised |-> FALSE, branch |-> "expiry", results |-> ExpiryResults(self)]
    ELSE IF D1D2Raises(self)
    THEN [raised |-> TRUE, branch |-> "general", results |-> Defaults]
    ELSE IF D1D2None(self)
    THEN [raised |-> FALSE, branch |-> "zero_vol", results |-> Intrinsic(self)]
    ELSE [raised |-> FALSE, branch |-> "general", results |-> GeneralResults(self)]

(* BlackScholes(S=d['S'], ..., q_pct=d['q']).calculate_all() *)
Evaluate(d) ==
    CalculateAll(BlackScholes(d["S"], d["K"], d["T"], d["r"], d["sigma"], d["q"]))

-----------------------------------------------------------------------------
(* gui_view.py                                                             *)

(* The readonly comboboxes' choices. *)
ComboYValues == {"Call Price", "Put Price", "Call Delta", "Put Delta",
                 "Gamma", "Vega", "Theta", "Rho"}
ComboXValues == {"Spot Price", "Volatility", "Time (Days)"}
ComboZValues == {"Volatility", "Time (Days)", "Risk-Free Rate"}

NoMsg == [title |-> "", text |-> ""]
StepsError == [title |-> "Input Error",
               text |-> "Invalid graph settings: Steps must be > 1"]
ConfigError == [title |-> "Configuration Error",
                text |-> "X-Axis and Z-Axis variables must be different."]

(* get_dashboard_inputs on entries that all hold numbers: the dict of      *)
(* their float values.                                                     *)
get_dashboard_inputs(e) == [k \in InputKeys |-> e[k]]

(* if params['x_steps'] <= 1: raise ValueError("Steps must be > 1") *)
StepsInvalidOffByOne(n) == n < 1
StepsInvalid(n) == n <= 1

(* get_analysis_inputs: (base_inputs, params), or None after the error     *)
(* box.                                                                    *)
get_analysis_inputs(e, s) ==
    IF StepsInvalid(s.x_steps)
    THEN [ok |-> FALSE, msg |-> StepsError, base |-> get_dashboard_inputs(e),
          params |-> s]
    ELSE [ok |-> TRUE, msg |-> NoMsg, base |-> get_dashboard_inputs(e),
          params |-> s]

-----------------------------------------------------------------------------
(* app.py                                                                  *)

(* self.var_map.get(label) *)
VarMapGet(label) ==
    CASE label = "Spot Price" -> "S"
      [] label = "Volatility" -> "sigma"
      [] label = "Time (Days)" -> "T"
      [] label = "Risk-Free Rate" -> "r"
      [] OTHER -> "None"

(* self.metric_map.get(label) *)
MetricMapGetPutSide(label) ==
    CASE label = "Call Price" -> "call_price"
      [] label = "Put Price" -> "put_price"
      [] label = "Call Delta" -> "call_delta"
      [] label = "Put Delta" -> "put_delta"
      [] label = "Gamma" -> "gamma"
      [] label = "Vega" -> "vega"
      [] label = "Theta" -> "put_theta"
      [] label = "Rho" -> "put_rho"
      [] OTHER -> "None"
MetricMapGet(label) ==
    CASE label = "Call Price" -> "call_price"
      [] label = "Put Price" -> "put_price"
      [] label = "Call Delta" -> "call_delta"
      [] label = "Put Delta" -> "put_delta"
      [] label = "Gamma" -> "gamma"
      [] label = "Vega" -> "vega"
      [] label = "Theta" -> "call_theta"
      [] label = "Rho" -> "call_rho"
      [] OTHER -> "None"

(* if x_var_name == z_var_name: warning box, return *)
SameVariableNever(xn, zn) == FALSE
SameVariable(xn, zn) == xn = zn

(* np.linspace(start, end, n): step = (end - start) / (n - 1), the points  *)
(* start + j * step, the last one set to end.                              *)
Linspace(start, end, n) ==
    IF n <= 0 THEN <<>>
    ELSE IF n = 1 THEN <<start>>
    ELSE LET step == (end - start) \div (n - 1)
         IN  [j \in 1..n |-> IF j = n THEN end ELSE start + (j - 1) * step]

(* [params['z_start'] + i * params['z_inc'] for i in range(5)] *)
ZValues(z_start, z_inc) == [i \in 1..NSeries |-> z_start + (i - 1) * z_inc]

(* res.get(y_metric_key, 0.0) *)
ResGet(results, key) ==
    IF key \in DOMAIN results THEN results[key] ELSE Lit(0)

(* One cell's inputs: current_inputs = base_inputs.copy(), then the two     *)
(* overrides.  Returns the base dict as the cell leaves it and the dict     *)
(* the model is built from.  i and j count from 0.                          *)
CellStepAlias(base, xn, zn, x_values, z_values, i, j) ==
    LET cur == [base EXCEPT ![xn] = x_values[j + 1], ![zn] = z_values[i + 1]]
    IN  [base |-> cur, inputs |-> cur]
CellStepHoisted(base, xn, zn, x_values, z_values, i, j) ==
    LET cur == IF j = 0
               THEN [base EXCEPT ![xn] = x_values[j + 1], ![zn] = z_values[i + 1]]
               ELSE [base EXCEPT ![xn] = x_values[j + 1]]
    IN  [base |-> cur, inputs |-> cur]
CellStep(base, xn, zn, x_values, z_values, i, j) ==
    LET cur == [base EXCEPT ![xn] = x_values[j + 1], ![zn] = z_values[i + 1]]
    IN  [base |-> base, inputs |-> cur]

(* for x_val in x_values: ... row_results.append(val)                      *)
RECURSIVE InnerLoop(_, _, _, _)
InnerLoop(ctx, i, j, st) ==
    IF j >= Len(ctx.x_values) \/ st.raised THEN st
    ELSE LET step == CellStep(st.base, ctx.xn, ctx.zn, ctx.x_values,
                              ctx.z_values, i, j)
             res == Evaluate(step.inputs)
         IN  IF res.raised
             THEN [st EXCEPT !.base = step.base, !.evals = @ + 1,
                             !.raised = TRUE]
             ELSE InnerLoop(ctx, i, j + 1,
                            [st EXCEPT !.base = step.base, !.evals = @ + 1,
                                       !.row = Append(@, ResGet(res.results,
                                                                ctx.y_key))])

(* for z_val in z_values: row_results = [] ... y_matrix.append(row_results) *)
RECURSIVE OuterLoop(_, _, _)
OuterLoop(ctx, i, st) ==
    IF i >= Len(ctx.z_values) \/ st.raised THEN st
    ELSE LET row == InnerLoop(ctx, i, 0, [st EXCEPT !.row = <<>>])
         IN  IF row.raised THEN row
             ELSE OuterLoop(ctx, i + 1,
                            [row EXCEPT !.y_matrix = Append(@, row.row)])

(* run_analysis up to the simulation loop: the view's validation, the name *)
(* lookups, the same-variable check and the two vectors.                   *)
Prepare(e, s) ==
    LET data == get_analysis_inputs(e, s)
        xn == VarMapGet(s.x_var)
        zn == VarMapGet(s.z_var)
    IN  IF ~data.ok
        THEN [ok |-> FALSE, msg |-> data.msg, base |-> <<>>]
        ELSE IF SameVariable(xn, zn)
        THEN [ok |-> FALSE, msg |-> ConfigError, base |-> <<data.base>>]
        ELSE [ok |-> TRUE, msg |-> NoMsg, base |-> <<data.base>>,
              xn |-> xn, zn |-> zn, y_key |-> MetricMapGet(s.y_var),
              x_values |-> Linspace(s.x_start, s.x_end, s.x_steps),
              z_values |-> ZValues(s.z_start, s.z_inc)]

(* The arguments of self.view.plot_data. *)
PlotCall(ctx, s, y_matrix) ==
    [x_values |-> ctx.x_values, z_values |-> ctx.z_values,
     y_matrix |-> y_matrix, x_label |-> s.x_var, y_label |-> s.y_var,
     z_label |-> s.z_var]

(* run_analysis as a whole: what it shows, whether an exception left it,   *)
(* how many calculate_all calls it made, its plot_data call and its        *)
(* base_inputs dict on exit.                                               *)
Analysis(e, s) ==
    LET ctx == Prepare(e, s)
    IN  IF ~ctx.ok
        THEN [msg |-> ctx.msg, raised |-> FALSE, evals |-> 0, plot |-> <<>>,
              base |-> ctx.base]
        ELSE LET loop == OuterLoop(ctx, 0, [base |-> ctx.base[1], row |-> <<>>,
                                            y_matrix |-> <<>>, evals |-> 0,
                                            raised |-> FALSE])
             IN  [msg |-> NoMsg, raised |-> loop.raised, evals |-> loop.evals,
                  plot |-> IF loop.raised THEN <<>>
                           ELSE <<PlotCall(ctx, s, loop.y_matrix)>>,
                  base |-> <<loop.base>>]

-----------------------------------------------------------------------------
(* The checked configurations                                              *)

(* The six dashboard entries: spot and strike of either order, equal, and  *)
(* zero; days and volatility at zero, exactly on the 1e-9 threshold        *)
(* (365e-9 days, 100e-9 percent) and just past it.                         *)
EntryConfigs ==
    [S : {0, One, 2 * One}, K : {0, One},
     T : {0, DaysPerYear * Eps, DaysPerYear * Eps + 1},
     r : {One},
     sigma : {0, PctScale * Eps, PctScale * Eps + 1},
     q : {One}]

(* The text an unrecognised Y-axis choice would hold. *)
UnknownMetric == "Implied Vol"

(* The X range and the Z series typed together: <<x_start, x_end, z_start,  *)
(* z_inc>>.  The first crosses both thresholds, the second stays past them. *)
RangeConfigs == {<<0, 2 * One, 0, PctScale * Eps>>,
                 <<DaysPerYear * Eps, One, One, -1>>}

(* The Tab 2 widgets. *)
SettingConfigs ==
    {[y_var |-> y, x_var |-> x, z_var |-> z, x_start |-> rc[1],
      x_end |-> rc[2], x_steps |-> n, z_start |-> rc[3], z_inc |-> rc[4]] :
        y \in ComboYValues \cup {UnknownMetric}, x \in ComboXValues,
        z \in ComboZValues, rc \in RangeConfigs, n \in 0..MaxSteps}

-----------------------------------------------------------------------------
(* The two button handlers                                                 *)

(* entries, settings: the widgets' contents.  The other variables record   *)
(* what the most recent handler did: which one ran, the message box it     *)
(* showed, whether an exception left it, its calculate_all calls, the      *)
(* branch calculate_all took (dashboard), the dict handed to               *)
(* update_dashboard_results, the plot_data call and the handler's          *)
(* base_inputs dict on exit.  pc, cells and reordered belong to the        *)
(* any-order run further down.                                             *)
Init ==
    /\ entries \in EntryConfigs
    /\ settings \in SettingConfigs
    /\ handler = "none"
    /\ msg = NoMsg
    /\ raised = FALSE
    /\ evals = 0
    /\ branch = ""
    /\ shown = <<>>
    /\ plot = <<>>
    /\ base_inputs = <<>>
    /\ pc = "idle"
    /\ cells = <<>>
    /\ reordered = FALSE

(* run_dashboard_calc *)
RunDashboardCalc ==
    LET inputs == get_dashboard_inputs(entries)
        res == Evaluate(inputs)
    IN  /\ handler' = "calc"
        /\ msg' = NoMsg
        /\ raised' = res.raised
        /\ evals' = 1
        /\ branch' = res.branch
        /\ shown' = IF res.raised THEN <<>> ELSE <<res.results>>
        /\ plot' = <<>>
        /\ base_inputs' = <<inputs>>
        /\ UNCHANGED <<entries, settings, pc, cells, reordered>>

(* run_analysis *)
RunAnalysis ==
    LET out == Analysis(entries, settings)
    IN  /\ handler' = "analysis"
        /\ msg' = out.msg
        /\ raised' = out.raised
        /\ evals' = out.evals
        /\ branch' = ""
        /\ shown' = <<>>
        /\ plot' = out.plot
        /\ base_inputs' = out.base
        /\ UNCHANGED <<entries, settings, pc, cells, reordered>>

Next == RunDashboardCalc \/ RunAnalysis

Spec == Init /\ [][Next]_vars

-----------------------------------------------------------------------------
(* The simulation loop with its cells taken in any order                   *)

(* run_analysis again, its loop body (copy, two overrides, model,          *)
(* calculate_all, metric lookup) run once per cell but with the cells      *)
(* picked in any order, and a computed cell possibly computed again.       *)
(* cells maps each computed <<i, j>> to its value; evals counts the cells  *)
(* computed for the first time; reordered records that some cell was       *)
(* computed before one the sequential loop takes earlier.                  *)

AnyEntryConfigs ==
    {[S |-> sk[1], K |-> sk[2], T |-> DaysPerYear * Eps + 1,
      r |-> One, sigma |-> PctScale * Eps + 1, q |-> One] :
        sk \in {<<2 * One, One>>, <<One, 0>>}}

AnySettingConfigs ==
    {[y_var |-> "Call Delta", x_var |-> x, z_var |-> z, x_start |-> 0,
      x_end |-> 2 * One, x_steps |-> n, z_start |-> 0,
      z_inc |-> PctScale * Eps] :
        x \in {"Spot Price", "Volatility"}, z \in {"Volatility", "Time (Days)"},
        n \in 2..MaxStepsAny}

InitAny ==
    /\ entries \in AnyEntryConfigs
    /\ settings \in AnySettingConfigs
    /\ handler = "none"
    /\ msg = NoMsg
    /\ raised = FALSE
    /\ evals = 0
    /\ branch = ""
    /\ shown = <<>>
    /\ plot = <<>>
    /\ base_inputs = <<>>
    /\ pc = "idle"
    /\ cells = <<>>
    /\ reordered = FALSE

CellIds == (0..(NSeries - 1)) \X (0..(settings.x_steps - 1))

(* c comes before d in the sequential loop. *)
Before(c, d) == c[1] < d[1] \/ (c[1] = d[1] /\ c[2] < d[2])

(* The handler up to its loop (lines 69-89). *)
BeginAnalysis ==
    /\ pc = "idle"
    /\ LET ctx == Prepare(entries, settings)
       IN  /\ msg' = ctx.msg
           /\ base_inputs' = ctx.base
           /\ pc' = IF ctx.ok THEN "running" ELSE "done"
           /\ handler' = IF ctx.ok THEN handler ELSE "analysis"
    /\ UNCHANGED <<entries, settings, raised, evals, branch, shown, plot,
                   cells, reordered>>

(* The loop body (lines 96-122) for cell c. *)
CellValue(c) ==
    LET ctx == Prepare(entries, settings)
        step == CellStep(base_inputs[1], ctx.xn, ctx.zn, ctx.x_values,
                         ctx.z_values, c[1], c[2])
        res == Evaluate(step.inputs)
    IN  [base |-> step.base, raised |-> res.raised,
         val |-> ResGet(res.results, ctx.y_key)]

EvalCell(c) ==
    /\ pc = "running"
    /\ c \notin DOMAIN cells
    /\ LET out == CellValue(c)
       IN  /\ base_inputs' = <<out.base>>
           /\ evals' = evals + 1
           /\ raised' = out.raised
           /\ IF out.raised
              THEN /\ pc' = "done"
                   /\ handler' = "analysis"
                   /\ cells' = cells
              ELSE /\ pc' = pc
                   /\ handler' = handler
                   /\ cells' = [d \in DOMAIN cells \cup {c} |->
                                   IF d = c THEN out.val ELSE cells[d]]
    /\ reordered' = (reordered \/ \E d \in CellIds \ DOMAIN cells : Before(d, c))
    /\ UNCHANGED <<entries, settings, msg, branch, shown, plot>>

(* A cell already computed is computed a second time and stored again. *)
ReEvalCell(c) ==
    /\ pc = "running"
    /\ c \in DOMAIN cells
    /\ LET out == CellValue(c)
       IN  /\ base_inputs' = <<out.base>>
           /\ cells' = [cells EXCEPT ![c] = out.val]
    /\ UNCHANGED <<entries, settings, handler, msg, raised, evals, branch,
                   shown, plot, pc, reordered>>

(* Every cell is in: the rows are assembled and plot_data is called        *)
(* (lines 123-133).                                                        *)
FinishSweep ==
    /\ pc = "running"
    /\ DOMAIN cells = CellIds
    /\ LET ctx == Prepare(entries, settings)
           y_matrix == [i \in 1..NSeries |->
                           [j \in 1..settings.x_steps |-> cells[<<i - 1, j - 1>>]]]
       IN  plot' = <<PlotCall(ctx, settings, y_matrix)>>
    /\ pc' = "done"
    /\ handler' = "analysis"
    /\ UNCHANGED <<entries, settings, msg, raised, evals, branch, shown,
                   base_inputs, cells, reordered>>

NextAny ==
    \/ BeginAnalysis
    \/ \E c \in CellIds : EvalCell(c)
    \/ \E c \in CellIds : ReEvalCell(c)
    \/ FinishSweep

SpecAnyOrder == InitAny /\ [][NextAny]_vars

-----------------------------------------------------------------------------
(* Properties                                                              *)

Greeks == {"gamma", "vega", "call_theta", "put_theta", "call_rho", "put_rho"}

(* T = days / 365 <= 1e-9, and sigma = vol_pct / 100 <= 1e-9, on the        *)
(* dashboard entries.                                                      *)
EntryTNearZero == entries.T <= DaysPerYear * Eps
EntrySigmaNearZero == entries.sigma <= PctScale * Eps

IntrinsicCall == IF entries.S - entries.K > 0 THEN entries.S - entries.K ELSE 0
IntrinsicPut == IF entries.K - entries.S > 0 THEN entries.K - entries.S ELSE 0

(* The most recent handler was a sweep that passed both validations. *)
ValidSweepRan ==
    /\ handler = "analysis"
    /\ settings.x_var # settings.z_var
    /\ settings.x_steps > 1

(* base with the independent field replaced by independent_values[j] and   *)
(* the series field by series_start + i * series_increment (i, j from 0).  *)
DirectInputs(i, j) ==
    [k \in InputKeys |->
        IF k = VarMapGet(settings.z_var)
        THEN settings.z_start + i * settings.z_inc
        ELSE IF k = VarMapGet(settings.x_var)
        THEN plot[1].x_values[j + 1]
        ELSE entries[k]]

(* The plotted matrix has 5 rows of step_count columns. *)
MatrixShape ==
    /\ plot # <<>>
    /\ Len(plot[1].y_matrix) = 5
    /\ \A i \in 1..5 : Len(plot[1].y_matrix[i]) = settings.x_steps

(* C1: evaluate is total: the Calculate handler, on any numeric entries    *)
(* (zero spot or strike included), ends without raising and hands over a   *)
(* dict of the ten result fields.                                          *)
C1_EvaluateTotal ==
    handler = "calc" =>
        /\ ~raised
        /\ shown # <<>>
        /\ DOMAIN shown[1] = ResultKeys

(* C2: when T = days/365 <= 1e-9, whatever the volatility, calculate_all   *)
(* returns the intrinsic prices, the step deltas (1/0 for S > K, 0/-1 for  *)
(* S < K, 0/0 for S = K) and zero for the other six fields.                *)
C2_ExpiryBranch ==
    (handler = "calc" /\ EntryTNearZero) =>
        /\ ~raised
        /\ shown # <<>>
        /\ shown[1]["call_price"] = Lit(IntrinsicCall)
        /\ shown[1]["put_price"] = Lit(IntrinsicPut)
        /\ entries.S > entries.K =>
              shown[1]["call_delta"] = Lit(One) /\ shown[1]["put_delta"] = Lit(0)
        /\ entries.S < entries.K =>
              shown[1]["call_delta"] = Lit(0) /\ shown[1]["put_delta"] = Lit(-One)
        /\ entries.S = entries.K =>
              shown[1]["call_delta"] = Lit(0) /\ shown[1]["put_delta"] = Lit(0)
        /\ \A k \in Greeks : shown[1][k] = Lit(0)

C2_Witness ==
    /\ handler = "calc"
    /\ entries.T = DaysPerYear * Eps
    /\ entries.sigma > PctScale * Eps
    /\ entries.S > entries.K
    /\ shown # <<>>
    /\ shown[1]["call_delta"] = Lit(One)

(* C3: when T > 1e-9 and sigma = vol_pct/100 <= 1e-9, calculate_all        *)
(* returns the intrinsic prices and leaves all eight Greeks, the deltas    *)
(* included, at 0.0; and that branch is only taken with T > 1e-9.          *)
C3_ZeroVolBranch ==
    /\ (handler = "calc" /\ ~EntryTNearZero /\ EntrySigmaNearZero) =>
          /\ ~raised
          /\ branch = "zero_vol"
          /\ shown # <<>>
          /\ shown[1]["call_price"] = Lit(IntrinsicCall)
          /\ shown[1]["put_price"] = Lit(IntrinsicPut)
          /\ \A k \in Greeks \cup {"call_delta", "put_delta"} :
                shown[1][k] = Lit(0)
    /\ (handler = "calc" /\ branch = "zero_vol") =>
          ~EntryTNearZero /\ EntrySigmaNearZero

C3_Witness ==
    /\ handler = "calc"
    /\ branch = "zero_vol"
    /\ entries.sigma = PctScale * Eps
    /\ entries.S > entries.K
    /\ entries.K = 0
    /\ shown # <<>>
    /\ shown[1]["call_price"] = Lit(entries.S)
    /\ shown[1]["call_delta"] = Lit(0)

(* C4 as stated: a sweep whose X and Z variables coincide always fails     *)
(* with the configuration error, whatever the step count, with no          *)
(* evaluation and no plot.                                                 *)
C4_Original ==
    (handler = "analysis" /\ settings.x_var = settings.z_var) =>
        /\ msg = ConfigError
        /\ evals = 0
        /\ plot = <<>>

(* C4 amended: a sweep whose X and Z variables coincide always fails with  *)
(* no evaluation and no plot; the error shown is the configuration error   *)
(* when step_count > 1 and the view's Steps error when step_count <= 1,    *)
(* because the view validates the step count first.                        *)
C4_SameVariableRejected ==
    (handler = "analysis" /\ settings.x_var = settings.z_var) =>
        /\ msg = IF settings.x_steps > 1 THEN ConfigError ELSE StepsError
        /\ ~raised
        /\ evals = 0
        /\ plot = <<>>

C4_Witness ==
    /\ handler = "analysis"
    /\ settings.x_var = settings.z_var
    /\ settings.x_steps = MaxSteps
    /\ msg = ConfigError
    /\ evals = 0

(* C5: a sweep with step_count <= 1 always fails with the Steps error      *)
(* before any evaluation: no calculate_all call and no plot_data call.     *)
C5_StepsRejected ==
    (handler = "analysis" /\ settings.x_steps <= 1) =>
        /\ msg = StepsError
        /\ ~raised
        /\ evals = 0
        /\ plot = <<>>

C5_Witness ==
    /\ handler = "analysis"
    /\ settings.x_steps = 1
    /\ settings.x_var # settings.z_var
    /\ msg = StepsError
    /\ evals = 0

(* C6: every valid sweep (distinct variables, step_count > 1) yields a     *)
(* matrix of 5 rows of step_count columns whose cell [i][j] is the target  *)
(* metric of a direct evaluation of base with only the two swept fields    *)
(* replaced.                                                               *)
C6_MatrixMatchesDirect ==
    (ValidSweepRan /\ settings.y_var \in ComboYValues) =>
        /\ MatrixShape
        /\ \A i \in 0..4, j \in 0..(settings.x_steps - 1) :
              /\ ~Evaluate(DirectInputs(i, j)).raised
              /\ plot[1].y_matrix[i + 1][j + 1] =
                    Evaluate(DirectInputs(i, j)).results[MetricMapGet(settings.y_var)]

(* C7: the sweep never changes the base inputs it was given: whenever      *)
(* run_analysis holds a base_inputs dict, every field still has the value  *)
(* the dashboard entries gave it, whether the sweep plotted, was rejected  *)
(* or was cut short.                                                       *)
C7_BaseNotMutated ==
    (handler = "analysis" /\ base_inputs # <<>>) =>
        \A k \in InputKeys : base_inputs[1][k] = entries[k]

C7_Witness ==
    /\ ValidSweepRan
    /\ plot # <<>>
    /\ base_inputs # <<>>
    /\ evals = 5 * MaxSteps
    /\ plot[1].x_values[MaxSteps] # entries[VarMapGet(settings.x_var)]
    /\ plot[1].z_values[5] # entries[VarMapGet(settings.z_var)]

(* C8: with an unrecognised target metric a valid sweep does not fail:     *)
(* every evaluation is made and every cell of the 5 x step_count matrix    *)
(* is 0.0.                                                                 *)
C8_UnknownMetricZero ==
    (ValidSweepRan /\ settings.y_var \notin ComboYValues) =>
        /\ ~raised
        /\ evals = 5 * settings.x_steps
        /\ MatrixShape
        /\ \A i \in 1..5, j \in 1..settings.x_steps :
              plot[1].y_matrix[i][j] = Lit(0)

(* C9: each of the eight Y-axis labels maps to a key of the result dict,   *)
(* "Theta" and "Rho" map to call_theta and call_rho, and every cell of a   *)
(* plotted Theta or Rho sweep is the call-side value of its evaluation.    *)
C9_MetricLabels ==
    /\ \A l \in ComboYValues :
          MetricMapGet(l) \in DOMAIN Evaluate(get_dashboard_inputs(entries)).results
    /\ MetricMapGet("Theta") = "call_theta"
    /\ MetricMapGet("Rho") = "call_rho"
    /\ (handler = "analysis" /\ plot # <<>> /\ settings.y_var \in {"Theta", "Rho"}) =>
          \A i \in 0..4, j \in 0..(settings.x_steps - 1) :
              plot[1].y_matrix[i + 1][j + 1] =
                  Evaluate(DirectInputs(i, j)).results[
                      IF settings.y_var = "Theta" THEN "call_theta" ELSE "call_rho"]

C9_Witness ==
    /\ handler = "analysis"
    /\ plot # <<>>
    /\ settings.y_var = "Theta"
    /\ plot[1].y_matrix[5][1].kind = "bsm"
    /\ plot[1].y_matrix[5][1].name = "call_theta"

(* C10: evaluation is pure and the sweep is order independent: with the    *)
(* cells computed in any order, and recomputed any number of times, every  *)
(* stored cell equals the one the sequential loop stores, and the run ends *)
(* as the sequential handler does: the same plot_data call, or the same    *)
(* exception.                                                              *)
C10_OrderIndependent ==
    LET seq == Analysis(entries, settings)
    IN  /\ pc = "done" =>
              /\ raised = seq.raised
              /\ msg = seq.msg
              /\ plot = seq.plot
        /\ (pc = "running" /\ ~seq.raised) =>
              \A c \in DOMAIN cells :
                  cells[c] = seq.plot[1].y_matrix[c[1] + 1][c[2] + 1]
        /\ (pc = "running" /\ seq.raised) =>
              \E c \in CellIds \ DOMAIN cells : CellValue(c).raised

C10_Witness ==
    /\ pc = "done"
    /\ reordered
    /\ plot # <<>>
    /\ plot[1].y_matrix[NSeries][2].kind = "bsm"
    /\ plot[1].y_matrix[1][1].kind = "lit"

====
